---- MODULE Spec2Model ----
(***************************************************************************)
(* Partial-score computation of the cartolafc client                      *)
(* (Api._calculate_parcial, src/cartolafc/api.py) over the roster model   *)
(* of src/cartolafc/models.py.                                             *)
(*                                                                         *)
(* Scores are integers in units of 0.05 point (8.0 points = 160), so that *)
(* the captain's 1.5 multiplier is exact; feed scores are multiples of    *)
(* 0.1 point, i.e. even numbers of units.                                  *)
(***************************************************************************)
EXTENDS Integers, Sequences, FiniteSets

\* ------------------------------------------------------------------ bounds
MaxAtletas == 2
MaxReservas == 2
MaxPartidas == 2
\* largest retry count and largest cache timeout handed to Api, last clock tick
MaxTentativas == 2
MaxTtl == 2
MaxRelogio == 3
\* last round of the championship
MaxRodada == 2

\* 0.1 point, the threshold of the second credit branch (api.py:530)
Limiar == 2

\* ------------------------------------------------------------ static data
\* models.py _posicoes: position id -> nome
posicoes ==
    [id \in 1..6 |->
        CASE id = 1 -> "Goleiro"
          [] id = 2 -> "Lateral"
          [] id = 3 -> "Zagueiro"
          [] id = 4 -> "Meia"
          [] id = 5 -> "Atacante"
          [] id = 6 -> "Tecnico"]

\* position ids the rosters of the model use (Meia, Atacante)
PosIds == {4, 5}

\* Atleta.clube as Atleta.from_dict leaves it: '' when clube_id == 1,
\* None when clubes.get misses, otherwise a Clube (identified by its nome)
ClubeVazio == ""
ClubeNone == "None"
ClubeNomes == {"A", "B", "C"}

Range(s) == {s[k] : k \in DOMAIN s}

\* ------------------------------------------------------------- live feed
\* dict.get: <<entry>> when the key is present, <<>> for None
Get(feed, id_) ==
    IF id_ \in DOMAIN feed.atletas THEN <<feed.atletas[id_]>> ELSE <<>>

testeNone(feed, id_) == <<>>
\* Api._teste, the task handed to the worker pool: parciais.get(id_)
teste(feed, id_) == Get(feed, id_)

\* isinstance(x, Atleta) of a get() result
IsAtleta(r) == Len(r) = 1 /\ r[1].tipo = "Atleta"

EntradaValidaSoChaves(t_ok, feed) == ~feed.chave_nao_int
\* the guard of _calculate_parcial (api.py:464-465), TRUE when nothing is raised
EntradaValida(t_ok, feed) ==
    /\ ~feed.chave_nao_int
    /\ \A k \in DOMAIN feed.atletas : feed.atletas[k].tipo = "Atleta"
    /\ t_ok

\* ---------------------------------------------------------------- reset
ResetSemPontos(t) == [t EXCEPT !.jogados = 0]
ResetSemJogados(t) == [t EXCEPT !.pontos = 0]
\* api.py:469-470
Reset(t) == [t EXCEPT !.pontos = 0, !.jogados = 0]

\* ------------------------------------------------- starter live-feed copy
\* api.py:488-493
AtualizaAtleta(a, r) ==
    IF IsAtleta(r)
    THEN [a EXCEPT !.nome = r[1].apelido, !.pontos = r[1].pontos,
                   !.scout = r[1].scout, !.entrou_em_campo = r[1].entrou_em_campo]
    ELSE [a EXCEPT !.nome = "", !.pontos = 0, !.scout = "{}",
                   !.entrou_em_campo = FALSE]

JogouSeEntrou(r) == IF IsAtleta(r) /\ r[1].entrou_em_campo THEN 1 ELSE 0
\* api.py:494  "1 if tem_parcial else 0"
Jogou(r) == IF IsAtleta(r) THEN 1 ELSE 0

\* ----------------------------------------------------------- match status
\* api.py:503-504
PartidaEncerrada(p) ==
    (p.fim_de_jogo = "veja como foi" \/ p.status_transmissao_tr = "ENCERRADA")
        \/ ~p.valida

\* api.py:499-500 (evaluated only for a clube that is '' or a Clube)
PartidaDoClube(clube, p) ==
    clube # ClubeVazio /\ (clube = p.clube_casa \/ clube = p.clube_visitante)

\* api.py:499-500: atleta.clube.nome on None raises AttributeError as soon as
\* one partida is scanned
LevantaAttributeError(clube, ps) == clube = ClubeNone /\ Len(ps) > 0

\* first-match-wins variant of the scan
VarrePartidasPrimeira(clube, ps, k, jf) ==
    LET S == {x \in k..Len(ps) : PartidaDoClube(clube, ps[x])}
    IN IF S = {} THEN jf
       ELSE PartidaEncerrada(ps[CHOOSE x \in S : \A y \in S : x <= y])
\* api.py:496-507: the value of jogo_finalizou after the scan of ps[k..]
RECURSIVE VarrePartidas(_, _, _, _)
VarrePartidas(clube, ps, k, jf) ==
    IF k > Len(ps) THEN jf
    ELSE IF PartidaDoClube(clube, ps[k])
         THEN VarrePartidas(clube, ps, k + 1, PartidaEncerrada(ps[k]))
         ELSE VarrePartidas(clube, ps, k + 1, jf)

JogoFinalizou(clube, ps) == VarrePartidas(clube, ps, 1, FALSE)

\* ------------------------------------------------------ substitution rule
PosicaoNuncaUsada(a, usado) == FALSE
\* api.py:523  "atleta.posicao.nome in reserva_usado"
PosicaoJaUsada(a, usado) == posicoes[a.posicao_id] \in Range(usado)

CreditaCapitaoSemFim(a, r, jf) ==
    a.is_capitao /\ posicoes[a.posicao_id] = posicoes[r.posicao_id]
CreditaCapitaoComLimiar(a, r, jf) ==
    /\ a.is_capitao
    /\ posicoes[a.posicao_id] = posicoes[r.posicao_id]
    /\ jf
    /\ r.pontos >= Limiar
\* api.py:526
CreditaCapitao(a, r, jf) ==
    a.is_capitao /\ posicoes[a.posicao_id] = posicoes[r.posicao_id] /\ jf

CreditaLimiarEstrito(a, r, jf, found) ==
    /\ posicoes[a.posicao_id] = posicoes[r.posicao_id]
    /\ ~found
    /\ jf
    /\ r.pontos > Limiar
\* api.py:529-530
CreditaLimiar(a, r, jf, found) ==
    /\ posicoes[a.posicao_id] = posicoes[r.posicao_id]
    /\ ~found
    /\ jf
    /\ r.pontos >= Limiar

\* api.py:512-515: reserve refreshed from the feed
AtualizaReserva(r, rp) ==
    IF IsAtleta(rp)
    THEN [r EXCEPT !.pontos = rp[1].pontos, !.scout = rp[1].scout]
    ELSE [r EXCEPT !.pontos = 0, !.scout = "{}"]

\* credit amplified by the captain multiplier
CreditaComMult(st, ai, j, ramo) ==
    LET p == IF st.time.atletas[ai].is_capitao
             THEN (3 * st.time.reservas[j].pontos) \div 2
             ELSE st.time.reservas[j].pontos
    IN [st EXCEPT !.time.pontos = @ + p,
                  !.creditos = Append(@, [atleta |-> ai, reserva |-> j,
                                          pontos |-> p, ramo |-> ramo])]
\* one "time.pontos += reserva.pontos" (api.py:527, api.py:531), with its
\* history entry: which starter, which reserve, how much, which branch
Credita(st, ai, j, ramo) ==
    [st EXCEPT !.time.pontos = @ + st.time.reservas[j].pontos,
               !.creditos = Append(@, [atleta |-> ai, reserva |-> j,
                                       pontos |-> st.time.reservas[j].pontos,
                                       ramo |-> ramo])]

NaoEntrouSempre(a) == TRUE
\* api.py:520  "if not atleta.entrou_em_campo"
NaoEntrou(a) == ~a.entrou_em_campo

\* api.py:510-537: the loop over time.reservas from index j on, for the
\* starter a (already updated from the feed) at index ai.
\* st = [time, reserva_usado, foundRes, creditos]
RECURSIVE PercorreReservas(_, _, _, _, _, _)
PercorreReservas(st, feed, a, ai, jf, j) ==
    IF j > Len(st.time.reservas) THEN st
    ELSE
      LET r   == AtualizaReserva(st.time.reservas[j], Get(feed, st.time.reservas[j].id))
          st1 == [st EXCEPT !.time.reservas[j] = r]
      IN IF NaoEntrou(a)
         THEN LET st2 == [st1 EXCEPT !.foundRes = FALSE]
              IN IF PosicaoJaUsada(a, st2.reserva_usado)
                 THEN st2
                 ELSE LET st3 == IF CreditaCapitao(a, r, jf)
                                 THEN Credita(st2, ai, j, "capitao")
                                 ELSE st2
                      IN IF CreditaLimiar(a, r, jf, st3.foundRes)
                         THEN [Credita(st3, ai, j, "limiar") EXCEPT
                                  !.foundRes = TRUE,
                                  !.reserva_usado = Append(@, posicoes[r.posicao_id])]
                         ELSE PercorreReservas(st3, feed, a, ai, jf, j + 1)
         ELSE st1

\* api.py:509  "if time.reservas:" -- None and [] are both falsy
TemReservas(t) == ~t.reservas_none /\ Len(t.reservas) > 0

CapitaoMultSeEntrou(a) ==
    IF a.is_capitao /\ a.entrou_em_campo
    THEN [a EXCEPT !.pontos = (3 * @) \div 2] ELSE a
\* api.py:539-540  "atleta.pontos *= 1.5"
CapitaoMult(a) ==
    IF a.is_capitao THEN [a EXCEPT !.pontos = (3 * @) \div 2] ELSE a

\* ------------------------------------------------------------------ state
VARIABLES
    time,            \* the Time object handed to _calculate_parcial (mutated in place)
    time_ok,         \* isinstance(time, Time)
    parciais,        \* the live feed argument
    partidas,        \* Api().partidas(rodada_atual), api.py:468
    pc,              \* "idle", "loop", "done", "raised"
    erro,            \* the exception that ended the call, "" when none
    i,               \* index of the next starter of "for atleta in time.atletas"
    jogo_finalizou,  \* local of the last starter iteration
    reserva_usado,   \* local list of position names already substituted
    foundRes,        \* local flag
    creditos,        \* history: the reserve credits of the current pass
    anterior,        \* history: (pontos, jogados) the call before this one returned
    retorno,         \* history: (pontos, jogados) this call returned
    time_antes,      \* history: the roster as it was when the last call began
    futuro,          \* the Future of executor.submit (api.py:481), <<>> when none
    b,               \* a second _calculate_parcial call, of another roster:
                     \* its pc, roster and locals
    api,             \* the Api object: _attempts, _redis, _redis_timeout
    redis,           \* the Redis server: url -> <<>> or <<entry>>
    agora,           \* the clock of the Redis server, in seconds
    req,             \* the _request call: pc, url, local attempts, and its history
    origem,          \* history: url -> the parsed response _set last stored
    c2,              \* a _calculate_parcial_2 call on a copy of the roster:
                     \* its pc, roster and locals
    mercado,         \* what /mercado/status answers: status id and rodada_atual
    arquivo,         \* the athlete keys of static/dict_parciais.json
    h                \* the last call of parciais, time_parcial or time_parcial_2:
                     \* its arguments, what it fetched, how it ended

\* the provider's market, the cached file and the calls of the Api's methods
servico == <<mercado, arquivo, h>>

\* the variables of _request and of the cache
pedido == <<api, redis, agora, req, origem>>

\* what the actions of the first _calculate_parcial call leave alone
fora == <<futuro, b, pedido, c2, servico>>

vars == <<time, time_ok, parciais, partidas, pc, erro, i, jogo_finalizou,
          reserva_usado, foundRes, creditos, anterior, retorno, time_antes, fora>>

\* ----------------------------------------------------------------- inputs
\* ids: starter k has atleta_id k, reserve j has atleta_id 100 + j
AtletaId(k) == k
ReservaId(j) == 100 + j

\* feed scores of starters and of reserves (units of 0.05 point)
PontosAtleta == {160}
PontosReserva == {-2, 2}

\* an Atleta of the feed, as Api.parciais builds it (api.py:271-274);
\* entrou_em_campo is the feed's flag (a missing flag, None, is falsy like FALSE)
Parcial(p, e) ==
    [tipo |-> "Atleta", apelido |-> "apelido", pontos |-> p, scout |-> "scout",
     entrou_em_campo |-> e]

ParciaisAtleta == {Parcial(p, e) : p \in PontosAtleta, e \in BOOLEAN}
ParciaisReserva == {Parcial(p, TRUE) : p \in PontosReserva}

\* nondecreasing position ids: Time.from_dict sorts both lists by posicao_id
\* (models.py:369, models.py:376)
Ordenadas(n) ==
    {f \in [1..n -> PosIds] : \A k \in 1..(n - 1) : f[k] <= f[k + 1]}

\* a starter as Time.from_dict builds it (models.py:371-374); pontos, nome and
\* entrou_em_campo hold the values of the roster payload until a pass overwrites them
Atleta(k, pos, cap, clube) ==
    [id |-> AtletaId(k), posicao_id |-> pos, is_capitao |-> cap, clube |-> clube,
     nome |-> "apelido", pontos |-> 6, scout |-> "scout", entrou_em_campo |-> TRUE]

\* a reserve as Time.from_dict builds it (models.py:378-381)
Reserva(j, pos) ==
    [id |-> ReservaId(j), posicao_id |-> pos, pontos |-> 6, scout |-> "scout"]

\* Time.__init__ (models.py:355-365); pontos is the payload's pontos_campeonato,
\* jogados does not exist before the first pass (0 here)
Time(atletas, reservas, none) ==
    [atletas |-> atletas, reservas |-> reservas, reservas_none |-> none,
     pontos |-> 14, jogados |-> 0]

\* a Partida (models.py:294-332), clubs identified by nome
Partida(casa, visitante, fim, status, valida) ==
    [clube_casa |-> casa, clube_visitante |-> visitante, fim_de_jogo |-> fim,
     status_transmissao_tr |-> status, valida |-> valida]

PartidaVals ==
    { Partida("A", "B", "veja como foi", "", TRUE),
      Partida("B", "A", "", "ENCERRADA", TRUE),
      Partida("A", "B", "", "", FALSE),
      Partida("B", "A", "acompanhe", "EM_ANDAMENTO", TRUE) }

SeqsAte(S, n) == UNION {[1..m -> S] : m \in 0..n}

Feed(fa, fr, chave) ==
    [atletas |-> [k \in (DOMAIN fa) \cup (DOMAIN fr) |->
                     IF k \in DOMAIN fa THEN fa[k] ELSE fr[k]],
     chave_nao_int |-> chave]

\* no second call
SemChamada == [pc |-> "nenhuma"]

\* a second call about to begin on roster t
ChamadaB(t) ==
    [pc |-> "idle", time |-> t, time_antes |-> t, i |-> 1, erro |-> "",
     reserva_usado |-> <<>>, foundRes |-> FALSE, creditos |-> <<>>]

InitChamada ==
    /\ pc = "idle"
    /\ erro = ""
    /\ i = 1
    /\ jogo_finalizou = FALSE
    /\ reserva_usado = <<>>
    /\ foundRes = FALSE
    /\ creditos = <<>>
    /\ anterior = <<>>
    /\ retorno = <<>>
    /\ time_antes = time
    /\ futuro = <<>>

\* Api.__init__ (api.py:68): attempts if isinstance(attempts, int) and attempts > 0 else 1
NormalizaSemPiso(a) == IF a.int THEN a.val ELSE 1
Normaliza(a) == IF a.int /\ a.val > 0 THEN a.val ELSE 1

\* the default of set_redis's redis_timeout (api.py:113, api.py:125)
TtlPadrao == 10

\* Api.set_redis (api.py:125)
NormalizaTimeout(a) == IF a.int /\ a.val > 0 THEN a.val ELSE TtlPadrao

\* an argument that is an int v, and one that is no int
ArgInt(v) == [int |-> TRUE, val |-> v]
ArgNaoInt == [int |-> FALSE, val |-> 0]

\* Api(attempts=a) followed by set_redis when a redis_url is given
\* (api.py:68-74, api.py:113-128); the arguments are kept for the record
NovaApi(a, tem_redis, t) ==
    [attempts_arg |-> a, attempts |-> Normaliza(a),
     redis |-> tem_redis, timeout_arg |-> t,
     redis_timeout |-> IF tem_redis THEN NormalizaTimeout(t) ELSE 0]

Urls == {"u1", "u2"}

\* no _request call yet
ReqIdle ==
    [pc |-> "idle", url |-> "", attempts |-> 0, fetches |-> 0, sinais |-> <<>>,
     cache |-> FALSE, retorno |-> <<>>, erro |-> ""]

\* Api() with no request under way
InitSemPedido ==
    /\ api = NovaApi(ArgInt(1), FALSE, ArgNaoInt)
    /\ redis = [u \in Urls |-> <<>>]
    /\ agora = 0
    /\ req = ReqIdle
    /\ origem = [u \in Urls |-> <<>>]

\* the market status ids of the constants module, as models.py:32-33 names
\* them: 1 'Mercado aberto', 2 'Mercado fechado'
MERCADO_ABERTO == 1
MERCADO_FECHADO == 2

\* Mercado (models.py:269-279): status id and rodada_atual
Mercado(status, rodada) == [status |-> status, rodada_atual |-> rodada]

\* a closed market, an empty file, no call of the Api's methods
InitSemServico ==
    /\ mercado = Mercado(MERCADO_FECHADO, 1)
    /\ arquivo = {}
    /\ h = SemChamada

InitLocais ==
    /\ InitChamada
    /\ b = SemChamada
    /\ InitSemPedido
    /\ c2 = SemChamada
    /\ InitSemServico

\* rosters and feeds of every shape up to the bounds, in a round whose only
\* match (A x B) is over: starters of club A have a finished match, starters
\* of club C have no match (the starters absent from the feed are of club A)
InitElencos(maxN, maxM) ==
    \E n \in 0..maxN, m \in 0..maxM :
    \E pa \in Ordenadas(n), pr \in Ordenadas(m), cap \in 0..n :
    \E cl \in [1..n -> {"A", "C"}], none \in BOOLEAN :
    \E da \in SUBSET {AtletaId(k) : k \in 1..n},
       dr \in SUBSET {ReservaId(j) : j \in 1..m} :
    \E fa \in [da -> ParciaisAtleta], fr \in [dr -> ParciaisReserva] :
        /\ (none => m = 0)
        /\ \A k \in 1..n : AtletaId(k) \notin da => cl[k] = "A"
        /\ time = Time([k \in 1..n |-> Atleta(k, pa[k], cap = k, cl[k])],
                       [j \in 1..m |-> Reserva(j, pr[j])], none)
        /\ time_ok = TRUE
        /\ parciais = Feed(fa, fr, FALSE)
        /\ partidas = <<Partida("A", "B", "", "ENCERRADA", TRUE)>>

\* the rosters of every size up to the bounds
InitPontuacao == InitElencos(MaxAtletas, MaxReservas)

\* one Atacante starter who did not enter play; one Atacante reserve worth
\* 4.0, or a reserve list that is empty or None; every club value and every
\* match list up to the bound
InitPartidas ==
    \E clube \in {ClubeVazio, ClubeNone} \cup ClubeNomes, cap \in BOOLEAN :
    \E ps \in SeqsAte(PartidaVals, MaxPartidas) :
    \E rs \in {<<Reserva(1, 5)>>, <<>>}, none \in BOOLEAN :
        /\ (none => rs = <<>>)
        /\ time = Time(<<Atleta(1, 5, cap, clube)>>, rs, none)
        /\ time_ok = TRUE
        /\ parciais = Feed([k \in {AtletaId(1)} |-> Parcial(160, FALSE)],
                           [k \in {ReservaId(1)} |-> Parcial(80, TRUE)], FALSE)
        /\ partidas = ps

\* inputs the guard rejects: a non-integer key, a value that is no Atleta,
\* a roster that is no Time
InitInvalido ==
    \E tipo \in {"Atleta", "dict"}, chave \in BOOLEAN, ok \in BOOLEAN :
        /\ ~(tipo = "Atleta" /\ ~chave /\ ok)
        /\ time = Time(<<Atleta(1, 5, TRUE, "A")>>, <<Reserva(1, 5)>>, FALSE)
        /\ time_ok = ok
        /\ parciais = Feed([k \in {AtletaId(1)} |->
                               [Parcial(160, FALSE) EXCEPT !.tipo = tipo]],
                           [k \in {ReservaId(1)} |-> Parcial(80, TRUE)], chave)
        /\ partidas = <<Partida("A", "B", "", "ENCERRADA", TRUE)>>

Init == (InitPontuacao \/ InitPartidas \/ InitInvalido) /\ InitLocais

\* ---------------------------------------------------------------- actions
\* api.py:464-466: the guard fails, CartolaFCError before anything is touched
RaiseInvalid ==
    /\ pc \in {"idle", "done"}
    /\ ~EntradaValida(time_ok, parciais)
    /\ pc' = "raised"
    /\ erro' = "CartolaFCError"
    /\ time_antes' = time
    /\ UNCHANGED <<time, time_ok, parciais, partidas, i, jogo_finalizou,
                   reserva_usado, foundRes, creditos, anterior, retorno, fora>>

\* api.py:464-473: the guard passes, totals and locals are reset
BeginPass ==
    /\ pc \in {"idle", "done"}
    /\ EntradaValida(time_ok, parciais)
    /\ time' = Reset(time)
    /\ time_antes' = time
    /\ reserva_usado' = <<>>
    /\ foundRes' = FALSE
    /\ creditos' = <<>>
    /\ i' = 1
    /\ jogo_finalizou' = FALSE
    /\ pc' = "loop"
    /\ anterior' = retorno
    /\ retorno' = <<>>
    /\ UNCHANGED <<time_ok, parciais, partidas, erro, fora>>

\* the roster after api.py:486-494 of the iteration of starter k, r being
\* the result of the starter's lookup
AposResultado(t, k, r) ==
    [t EXCEPT !.atletas[k] = AtualizaAtleta(@, r),
              !.jogados = @ + Jogou(r)]

\* the same with the lookup done by the pool's task (api.py:480-484)
AposParcial(t, feed, k) == AposResultado(t, k, teste(feed, t.atletas[k].id))

\* api.py:486-542: the body of one iteration of "for atleta in time.atletas"
\* for starter k and lookup result r, as a function of the call's state
\* st = [time, reserva_usado, foundRes, creditos]; defined when no
\* AttributeError is raised
Iteracao(st, feed, ps, k, r) ==
    LET t1  == AposResultado(st.time, k, r)
        a   == t1.atletas[k]
        jf  == JogoFinalizou(a.clube, ps)
        st0 == [st EXCEPT !.time = t1]
        s2  == IF TemReservas(t1)
               THEN PercorreReservas(st0, feed, a, k, jf, 1)
               ELSE st0
        a2  == CapitaoMult(a)
    IN [time |-> [s2.time EXCEPT !.atletas[k] = a2, !.pontos = @ + a2.pontos],
        reserva_usado |-> s2.reserva_usado,
        foundRes |-> s2.foundRes,
        creditos |-> s2.creditos,
        jogo_finalizou |-> jf]

\* the state of the call as Iteracao takes it
Estado == [time |-> time, reserva_usado |-> reserva_usado,
           foundRes |-> foundRes, creditos |-> creditos]

\* the iteration of starter i with lookup result r completes
Itera(r) ==
    /\ ~LevantaAttributeError(AposResultado(time, i, r).atletas[i].clube, partidas)
    /\ LET s == Iteracao(Estado, parciais, partidas, i, r)
       IN /\ time' = s.time
          /\ jogo_finalizou' = s.jogo_finalizou
          /\ reserva_usado' = s.reserva_usado
          /\ foundRes' = s.foundRes
          /\ creditos' = s.creditos
    /\ i' = i + 1
    /\ UNCHANGED <<time_ok, parciais, partidas, pc, erro, anterior, retorno,
                   time_antes>>

\* api.py:486-500: the starter's clube is None and a partida is scanned;
\* AttributeError leaves the call after the starter's fields were written
IteraRaises(r) ==
    /\ LET t1 == AposResultado(time, i, r)
       IN /\ LevantaAttributeError(t1.atletas[i].clube, partidas)
          /\ time' = t1
    /\ jogo_finalizou' = FALSE
    /\ pc' = "raised"
    /\ erro' = "AttributeError"
    /\ UNCHANGED <<time_ok, parciais, partidas, i, reserva_usado, foundRes,
                   creditos, anterior, retorno, time_antes>>

\* api.py:475-542: one iteration of "for atleta in time.atletas", the pool's
\* task run to completion inside it (future.result() blocks, api.py:484)
StarterIteration ==
    /\ pc = "loop"
    /\ i <= Len(time.atletas)
    /\ futuro = <<>>
    /\ Itera(teste(parciais, time.atletas[i].id))
    /\ UNCHANGED fora

\* the same iteration ending in the AttributeError of api.py:499-500
StarterIterationRaises ==
    /\ pc = "loop"
    /\ i <= Len(time.atletas)
    /\ futuro = <<>>
    /\ IteraRaises(teste(parciais, time.atletas[i].id))
    /\ UNCHANGED fora

\* api.py:544  "return time"
Return ==
    /\ pc = "loop"
    /\ i > Len(time.atletas)
    /\ pc' = "done"
    /\ retorno' = <<[pontos |-> time.pontos, jogados |-> time.jogados]>>
    /\ UNCHANGED <<time, time_ok, parciais, partidas, erro, i, jogo_finalizou,
                   reserva_usado, foundRes, creditos, anterior, time_antes, fora>>

Next ==
    \/ RaiseInvalid
    \/ BeginPass
    \/ StarterIteration
    \/ StarterIterationRaises
    \/ Return

Spec == Init /\ [][Next]_vars

\* ------------------------------------------------- the single-worker pool
\* the call of what the pool's steps leave alone
chamada == <<time, time_ok, parciais, partidas, pc, erro, i, jogo_finalizou,
             reserva_usado, foundRes, creditos, anterior, retorno, time_antes>>

\* a Future: pending until the worker has run the task
Futuro(estado, id_, r) == [estado |-> estado, id |-> id_, resultado |-> r]

\* api.py:480-481: executor.submit(self._teste, parciais, atleta.id)
Submit ==
    /\ pc = "loop"
    /\ i <= Len(time.atletas)
    /\ futuro = <<>>
    /\ futuro' = <<Futuro("pendente", time.atletas[i].id, <<>>)>>
    /\ UNCHANGED <<chamada, b, pedido, c2, servico>>

\* the pool's thread runs the task (api.py:454-456) and completes the Future
Worker ==
    /\ futuro # <<>>
    /\ futuro[1].estado = "pendente"
    /\ futuro' = <<Futuro("concluido", futuro[1].id, teste(parciais, futuro[1].id))>>
    /\ UNCHANGED <<chamada, b, pedido, c2, servico>>

\* api.py:482-542: as_completed yields the Future, future.result() is the
\* lookup result, the rest of the iteration follows; the with-block ends
Result ==
    /\ pc = "loop"
    /\ futuro # <<>>
    /\ futuro[1].estado = "concluido"
    /\ Itera(futuro[1].resultado)
    /\ futuro' = <<>>
    /\ UNCHANGED <<b, pedido, c2, servico>>

\* the same ending in the AttributeError of api.py:499-500
ResultRaises ==
    /\ pc = "loop"
    /\ futuro # <<>>
    /\ futuro[1].estado = "concluido"
    /\ IteraRaises(futuro[1].resultado)
    /\ futuro' = <<>>
    /\ UNCHANGED <<b, pedido, c2, servico>>

\* rosters of up to MaxAtletas starters and one reserve, and the inputs of
\* InitPartidas and InitInvalido
InitPool ==
    (InitElencos(MaxAtletas, 1) \/ InitPartidas \/ InitInvalido) /\ InitLocais

NextPool ==
    \/ RaiseInvalid
    \/ BeginPass
    \/ Submit
    \/ Worker
    \/ Result
    \/ ResultRaises
    \/ Return

SpecPool == InitPool /\ [][NextPool]_vars

\* ------------------------------------- two calls, of two different rosters
EscopoModulo == "modulo"
\* where the name reserva_usado lives: api.py:473 binds it in the body of the
\* function, a local of each call
Escopo == "chamada"

\* the list the second call's reserva_usado names
UsadoB == IF Escopo = "chamada" THEN b.reserva_usado ELSE reserva_usado

\* the first call's variables the second call leaves alone
chamadaSemUsado ==
    <<time, time_ok, parciais, partidas, pc, erro, i, jogo_finalizou,
      foundRes, creditos, anterior, retorno, time_antes>>

\* the second call goes to state r and binds its reserva_usado to l
AtribuiUsadoB(r, l) ==
    /\ b' = IF Escopo = "chamada" THEN [r EXCEPT !.reserva_usado = l] ELSE r
    /\ reserva_usado' = IF Escopo = "chamada" THEN reserva_usado ELSE l

\* api.py:464-466 of the second call (its roster is a Time)
RaiseInvalidB ==
    /\ b.pc = "idle"
    /\ ~EntradaValida(TRUE, parciais)
    /\ b' = [b EXCEPT !.pc = "raised", !.erro = "CartolaFCError"]
    /\ UNCHANGED <<chamada, futuro, pedido, c2, servico>>

\* api.py:464-473 of the second call
BeginPassB ==
    /\ b.pc = "idle"
    /\ EntradaValida(TRUE, parciais)
    /\ AtribuiUsadoB([b EXCEPT !.pc = "loop", !.time = Reset(@), !.i = 1,
                               !.foundRes = FALSE, !.creditos = <<>>], <<>>)
    /\ UNCHANGED <<chamadaSemUsado, futuro, pedido, c2, servico>>

\* api.py:475-542 of the second call; its starters are of a club, so that
\* api.py:499-500 does not raise
StarterIterationB ==
    /\ b.pc = "loop"
    /\ b.i <= Len(b.time.atletas)
    /\ LET s == Iteracao([time |-> b.time, reserva_usado |-> UsadoB,
                          foundRes |-> b.foundRes, creditos |-> b.creditos],
                         parciais, partidas, b.i,
                         teste(parciais, b.time.atletas[b.i].id))
       IN AtribuiUsadoB([b EXCEPT !.time = s.time, !.foundRes = s.foundRes,
                                  !.creditos = s.creditos, !.i = @ + 1],
                        s.reserva_usado)
    /\ UNCHANGED <<chamadaSemUsado, futuro, pedido, c2, servico>>

\* api.py:544 of the second call
ReturnB ==
    /\ b.pc = "loop"
    /\ b.i > Len(b.time.atletas)
    /\ b' = [b EXCEPT !.pc = "done"]
    /\ UNCHANGED <<chamada, futuro, pedido, c2, servico>>

\* the rosters of the second call: one Atacante starter of club A, captain or
\* not, and one Atacante reserve, their ids shared with the first roster's
\* players
TimesB ==
    {Time(<<Atleta(1, 5, cap, "A")>>, <<Reserva(1, 5)>>, FALSE) :
        cap \in BOOLEAN}

InitDuas ==
    /\ InitElencos(MaxAtletas, 1) \/ InitPartidas \/ InitInvalido
    /\ InitChamada
    /\ InitSemPedido
    /\ c2 = SemChamada
    /\ InitSemServico
    /\ \E t \in TimesB : b = ChamadaB(t)

NextDuas ==
    \/ RaiseInvalid
    \/ BeginPass
    \/ StarterIteration
    \/ StarterIterationRaises
    \/ Return
    \/ RaiseInvalidB
    \/ BeginPassB
    \/ StarterIterationB
    \/ ReturnB

SpecDuas == InitDuas /\ [][NextDuas]_vars

\* ------------------------------------------------- _request and the cache
\* the parsed responses of the provider
Dados == {[rodada |-> 1], [rodada |-> 2]}

\* json.dumps of a parsed response (api.py:670)
Dumps(d) ==
    CASE d.rodada = 1 -> "{\"rodada\": 1}"
      [] d.rodada = 2 -> "{\"rodada\": 2}"

\* json.loads of a text (api.py:639)
Loads(t) ==
    CASE t = "{\"rodada\": 1}" -> [rodada |-> 1]
      [] t = "{\"rodada\": 2}" -> [rodada |-> 2]

\* str -> bytes as Redis stores a value, and bytes.decode('utf-8') (api.py:636)
Encode(t) == [bytes |-> t]
Decode(x) == x.bytes

\* a Redis entry; ex is <<>> for a key with no expiry, <<t>> for one that
\* is gone from second t on
Entrada(valor, ex) == [valor |-> valor, expira |-> ex]

\* self._redis.get(url) (api.py:665): <<bytes>>, or <<>> for None
RedisGet(store, url, t) ==
    IF store[url] # <<>> /\ (store[url][1].expira = <<>> \/ t < store[url][1].expira[1])
    THEN <<store[url][1].valor>> ELSE <<>>

\* self._redis.set(url, text, ex=seconds) (api.py:670)
RedisSet(store, url, text, ex, t) ==
    [store EXCEPT ![url] = <<Entrada(Encode(text), <<t + ex>>)>>]

\* Api._get (api.py:662-666)
CacheGet(a, store, url, t) ==
    IF a.redis THEN RedisGet(store, url, t) ELSE <<>>

CacheSetSemEx(a, store, url, data, t) ==
    IF a.redis
    THEN [store EXCEPT ![url] = <<Entrada(Encode(Dumps(data)), <<>>)>>]
    ELSE store
\* Api._set (api.py:668-671), the store it leaves
CacheSet(a, store, url, data, t) ==
    IF a.redis THEN RedisSet(store, url, Dumps(data), a.redis_timeout, t)
    ELSE store

\* "if cached:" (api.py:634): neither None nor empty bytes
Truthy(c) == c # <<>> /\ c[1].bytes # ""

\* api.py:633-642: _request up to its first fetch: the cached entry is
\* returned, or the retry loop is entered (or skipped when attempts is 0)
Request ==
    /\ req.pc \in {"idle", "returned", "raised"}
    /\ \E url \in Urls :
         LET cached == CacheGet(api, redis, url, agora)
             r == [ReqIdle EXCEPT !.url = url]
         IN req' = IF Truthy(cached)
                   THEN [r EXCEPT !.pc = "returned", !.cache = TRUE,
                                  !.retorno = <<Loads(Decode(cached[1]))>>]
                   ELSE IF api.attempts = 0
                   THEN [r EXCEPT !.pc = "returned"]
                   ELSE [r EXCEPT !.pc = "loop", !.attempts = api.attempts]
    /\ UNCHANGED <<chamada, futuro, b, c2, servico, api, redis, agora, origem>>

\* api.py:643-656: a fetch whose response parses: _set and return
FetchOk ==
    /\ req.pc = "loop"
    /\ \E d \in Dados :
         /\ redis' = CacheSet(api, redis, req.url, d, agora)
         /\ origem' = IF api.redis THEN [origem EXCEPT ![req.url] = <<d>>]
                      ELSE origem
         /\ req' = [req EXCEPT !.pc = "returned", !.retorno = <<d>>,
                               !.fetches = @ + 1, !.sinais = Append(@, "ok")]
    /\ UNCHANGED <<chamada, futuro, b, c2, servico, api, agora>>

\* api.py:643-660: a fetch that raises CartolaFCOverloadError: one attempt
\* less, and the error is raised when none is left
FetchOverload ==
    /\ req.pc = "loop"
    /\ req' = [req EXCEPT !.attempts = @ - 1,
                          !.fetches = @ + 1, !.sinais = Append(@, "overload"),
                          !.pc = IF req.attempts - 1 = 0 THEN "raised" ELSE "loop",
                          !.erro = IF req.attempts - 1 = 0
                                   THEN "CartolaFCOverloadError" ELSE ""]
    /\ UNCHANGED <<chamada, futuro, b, c2, servico, api, redis, agora, origem>>

\* api.py:643-656: a fetch that raises anything else: no except clause
\* takes it, it leaves _request
FetchErro ==
    /\ req.pc = "loop"
    /\ req' = [req EXCEPT !.pc = "raised", !.erro = "CartolaFCError",
                          !.fetches = @ + 1, !.sinais = Append(@, "erro")]
    /\ UNCHANGED <<chamada, futuro, b, c2, servico, api, redis, agora, origem>>

\* a second goes by
Tick ==
    /\ agora < MaxRelogio
    /\ agora' = agora + 1
    /\ UNCHANGED <<chamada, futuro, b, c2, servico, api, redis, req, origem>>

\* the arguments of Api(attempts=...) and of set_redis(redis_timeout=...)
AttemptsArgs == {ArgNaoInt} \cup {ArgInt(v) : v \in (-1)..MaxTentativas}
TimeoutArgs == {ArgNaoInt} \cup {ArgInt(v) : v \in 0..MaxTtl}

\* an Api of every retry count, without a cache or with one; the Redis
\* server holds nothing for a url, or empty bytes
InitRequest ==
    /\ InitElencos(0, 0)
    /\ InitChamada
    /\ b = SemChamada
    /\ c2 = SemChamada
    /\ InitSemServico
    /\ \E a \in AttemptsArgs, tem_redis \in BOOLEAN, t \in TimeoutArgs :
         /\ (~tem_redis => t = ArgNaoInt)
         /\ api = NovaApi(a, tem_redis, t)
         /\ redis \in [Urls -> {<<>>, <<Entrada(Encode(""), <<>>)>>}]
         /\ (~tem_redis => redis = [u \in Urls |-> <<>>])
    /\ agora = 0
    /\ req = ReqIdle
    /\ origem = [u \in Urls |-> <<>>]

NextRequest ==
    \/ Request
    \/ FetchOk
    \/ FetchOverload
    \/ FetchErro
    \/ Tick

\* the call of requests.get returns: a fetch under way ends in one of its
\* three outcomes
SpecRequest ==
    InitRequest /\ [][NextRequest]_vars
                /\ WF_vars(FetchOk \/ FetchOverload \/ FetchErro)

\* ---------------------------------------------------- _calculate_parcial_2
\* Api._teste_2 (api.py:458-460): parciais_2.get(id_)
teste_2(feed, id_) ==
    IF id_ \in DOMAIN feed.atletas THEN <<feed.atletas[id_]>> ELSE <<>>

\* api.py:549-551, TRUE when CartolaFCError is not raised
EntradaValida2(t_ok, feed) ==
    ~(\/ feed.chave_nao_int
      \/ \E key \in DOMAIN feed.atletas : feed.atletas[key].tipo # "Atleta"
      \/ ~t_ok)

\* api.py:581-591: jogo_finalizou after the partidas n..Len(ps), jf before
RECURSIVE Partidas2(_, _, _, _)
Partidas2(clube, ps, n, jf) ==
    IF n > Len(ps) THEN jf
    ELSE LET p == ps[n]
             do_clube == clube # "" /\ (clube = p.clube_casa \/ clube = p.clube_visitante)
             acabou == (p.fim_de_jogo = "veja como foi"
                          \/ p.status_transmissao_tr = "ENCERRADA") \/ ~p.valida
         IN Partidas2(clube, ps, n + 1, IF do_clube THEN acabou ELSE jf)

\* api.py:583-584: None has no attribute nome
Raises2(clube, ps) == clube = ClubeNone /\ ps # <<>>

CreditaLimiar2Estrito(a, r, jf, found) ==
    /\ posicoes[a.posicao_id] = posicoes[r.posicao_id]
    /\ ~found /\ jf
    /\ r.pontos > Limiar
\* api.py:613-614
CreditaLimiar2(a, r, jf, found) ==
    /\ posicoes[a.posicao_id] = posicoes[r.posicao_id]
    /\ ~found /\ jf
    /\ r.pontos >= Limiar

\* api.py:594-622: the loop over time.reservas from reserve j on, for the
\* starter a; s = [time, reserva_usado, foundRes]
RECURSIVE Reservas2(_, _, _, _, _)
Reservas2(s, feed, a, jf, j) ==
    IF j > Len(s.time.reservas) THEN s
    ELSE
      LET rp  == IF s.time.reservas[j].id \in DOMAIN feed.atletas
                 THEN <<feed.atletas[s.time.reservas[j].id]>> ELSE <<>>
          tem == rp # <<>> /\ rp[1].tipo = "Atleta"
          r   == [s.time.reservas[j] EXCEPT
                     !.pontos = IF tem THEN rp[1].pontos ELSE 0,
                     !.scout = IF tem THEN rp[1].scout ELSE "{}"]
          s1  == [s EXCEPT !.time.reservas[j] = r]
      IN IF a.entrou_em_campo THEN s1
         ELSE IF posicoes[a.posicao_id] \in Range(s1.reserva_usado)
         THEN [s1 EXCEPT !.foundRes = FALSE]
         ELSE
           LET capitao == /\ a.is_capitao
                          /\ posicoes[a.posicao_id] = posicoes[r.posicao_id]
                          /\ jf
               s2 == [s1 EXCEPT !.foundRes = FALSE,
                                !.time.pontos = IF capitao THEN @ + r.pontos ELSE @]
           IN IF CreditaLimiar2(a, r, jf, s2.foundRes)
              THEN [s2 EXCEPT !.time.pontos = @ + r.pontos,
                              !.foundRes = TRUE,
                              !.reserva_usado = Append(@, posicoes[r.posicao_id])]
              ELSE Reservas2(s2, feed, a, jf, j + 1)

\* api.py:571-579: the starter's fields and jogados after the lookup result r
Parcial2(t, k, r) ==
    LET tem == r # <<>> /\ r[1].tipo = "Atleta"
    IN [t EXCEPT !.atletas[k].nome = IF tem THEN r[1].apelido ELSE "",
                 !.atletas[k].pontos = IF tem THEN r[1].pontos ELSE 0,
                 !.atletas[k].scout = IF tem THEN r[1].scout ELSE "{}",
                 !.atletas[k].entrou_em_campo =
                     IF tem THEN r[1].entrou_em_campo ELSE FALSE,
                 !.jogados = @ + (IF tem THEN 1 ELSE 0)]

\* api.py:571-627: one iteration of the loop over time.atletas for starter k
\* with lookup result r, when AttributeError is not raised
Iteracao2(s, feed, ps, k, r) ==
    LET t1 == Parcial2(s.time, k, r)
        a  == t1.atletas[k]
        jf == Partidas2(a.clube, ps, 1, FALSE)
        s1 == [s EXCEPT !.time = t1]
        s2 == IF ~t1.reservas_none /\ t1.reservas # <<>>
              THEN Reservas2(s1, feed, a, jf, 1) ELSE s1
        p  == IF a.is_capitao THEN (3 * a.pontos) \div 2 ELSE a.pontos
    IN [s2 EXCEPT !.time.atletas[k].pontos = p, !.time.pontos = @ + p]

\* a _calculate_parcial_2 call about to begin on roster t
Chamada2(t) ==
    [pc |-> "idle", time |-> t, i |-> 1, erro |-> "",
     reserva_usado |-> <<>>, foundRes |-> FALSE]

\* what the steps of the _calculate_parcial_2 call leave alone
fora2 == <<chamada, futuro, b, pedido, servico>>

\* api.py:549-551
RaiseInvalid2 ==
    /\ c2.pc = "idle"
    /\ ~EntradaValida2(time_ok, parciais)
    /\ c2' = [c2 EXCEPT !.pc = "raised", !.erro = "CartolaFCError"]
    /\ UNCHANGED fora2

\* api.py:549-558
BeginPass2 ==
    /\ c2.pc = "idle"
    /\ EntradaValida2(time_ok, parciais)
    /\ c2' = [c2 EXCEPT !.pc = "loop", !.time.pontos = 0, !.time.jogados = 0,
                        !.foundRes = FALSE, !.reserva_usado = <<>>, !.i = 1]
    /\ UNCHANGED fora2

\* api.py:560-627: one iteration of "for atleta in time.atletas"
StarterIteration2 ==
    /\ c2.pc = "loop"
    /\ c2.i <= Len(c2.time.atletas)
    /\ LET r == teste_2(parciais, c2.time.atletas[c2.i].id)
       IN /\ ~Raises2(c2.time.atletas[c2.i].clube, partidas)
          /\ LET s == Iteracao2([time |-> c2.time,
                                 reserva_usado |-> c2.reserva_usado,
                                 foundRes |-> c2.foundRes],
                                parciais, partidas, c2.i, r)
             IN c2' = [c2 EXCEPT !.time = s.time,
                                 !.reserva_usado = s.reserva_usado,
                                 !.foundRes = s.foundRes, !.i = @ + 1]
    /\ UNCHANGED fora2

\* api.py:571-584: the iteration ends in AttributeError after the starter's
\* fields were written
StarterIteration2Raises ==
    /\ c2.pc = "loop"
    /\ c2.i <= Len(c2.time.atletas)
    /\ Raises2(c2.time.atletas[c2.i].clube, partidas)
    /\ c2' = [c2 EXCEPT !.pc = "raised", !.erro = "AttributeError",
                        !.time = Parcial2(@, c2.i,
                                          teste_2(parciais, c2.time.atletas[c2.i].id))]
    /\ UNCHANGED fora2

\* api.py:629
Return2 ==
    /\ c2.pc = "loop"
    /\ c2.i > Len(c2.time.atletas)
    /\ c2' = [c2 EXCEPT !.pc = "done"]
    /\ UNCHANGED fora2

\* both functions are handed the same feed and equal rosters: several
\* starters over at most one reserve, one starter over several reserves, and
\* the inputs of InitPartidas and InitInvalido
InitEquiv ==
    /\ \/ InitElencos(MaxAtletas, 1)
       \/ InitElencos(1, MaxReservas)
       \/ InitPartidas
       \/ InitInvalido
    /\ InitChamada
    /\ b = SemChamada
    /\ InitSemPedido
    /\ InitSemServico
    /\ c2 = Chamada2(time)

NextEquiv ==
    \/ RaiseInvalid
    \/ BeginPass
    \/ StarterIteration
    \/ StarterIterationRaises
    \/ Return
    \/ RaiseInvalid2
    \/ BeginPass2
    \/ StarterIteration2
    \/ StarterIteration2Raises
    \/ Return2

SpecEquiv == InitEquiv /\ [][NextEquiv]_vars

\* ------------------------------------------------- vocabulary of the claims
\* the live-feed score of a player id, 0 when the feed has no Atleta for it
PontosNoFeed(id_) ==
    IF id_ \in DOMAIN parciais.atletas /\ parciais.atletas[id_].tipo = "Atleta"
    THEN parciais.atletas[id_].pontos ELSE 0

\* the live-feed entered-play flag of a player id, FALSE when absent
EntrouNoFeed(id_) ==
    /\ id_ \in DOMAIN parciais.atletas
    /\ parciais.atletas[id_].tipo = "Atleta"
    /\ parciais.atletas[id_].entrou_em_campo

\* what starter k itself is to add: its feed score, x1.5 for the captain
Contribuicao(k) ==
    IF time.atletas[k].is_capitao
    THEN (3 * PontosNoFeed(time.atletas[k].id)) \div 2
    ELSE PontosNoFeed(time.atletas[k].id)

RECURSIVE SomaContribuicoes(_)
SomaContribuicoes(k) ==
    IF k = 0 THEN 0 ELSE SomaContribuicoes(k - 1) + Contribuicao(k)

RECURSIVE SomaCreditos(_, _)
SomaCreditos(cs, k) ==
    IF k > Len(cs) THEN 0 ELSE cs[k].pontos + SomaCreditos(cs, k + 1)

IsPrefix(s, t) ==
    Len(s) <= Len(t) /\ \A k \in 1..Len(s) : s[k] = t[k]

\* position name of starter k / reserve j of the roster
PosAtleta(k) == posicoes[time.atletas[k].posicao_id]
PosReserva(j) == posicoes[time.reservas[j].posicao_id]

\* starters whose iteration is complete
Processados == IF pc \in {"loop", "done"} THEN 1..(i - 1) ELSE {}

\* a reserve of the position of starter k whose feed score reaches 0.1
TemReservaElegivel(k) ==
    \E j \in 1..Len(time.reservas) :
        PosReserva(j) = PosAtleta(k) /\ PontosNoFeed(time.reservas[j].id) >= Limiar

\* the match status of starter k, for a clube that raises nothing
StatusDe(k) == JogoFinalizou(time.atletas[k].clube, partidas)

\* -------------------------------------------------------------------- C1
\* C1: during and after a pass roster.pontos is the sum of the processed
\* starters' feed scores (0 when absent, x1.5 for the captain) plus the sum of
\* the reserve credits of that pass, each credit being the credited reserve's
\* feed score; the pontos held before the call does not enter the total.
C1_PontosEhSoma ==
    pc \in {"loop", "done"} =>
        /\ time.pontos = SomaContribuicoes(i - 1) + SomaCreditos(creditos, 1)
        /\ \A c \in Range(creditos) :
               c.pontos = PontosNoFeed(time.reservas[c.reserva].id)

C1_Witness ==
    /\ pc = "done"
    /\ Len(time.atletas) = 2
    /\ time_antes.pontos # 0
    /\ creditos # <<>>
    /\ \E k \in 1..2 : time.atletas[k].is_capitao /\ Contribuicao(k) = 240
    /\ \E k \in 1..2 : time.atletas[k].id \notin DOMAIN parciais.atletas

\* -------------------------------------------------------------------- C2
\* C2: within one pass at most one reserve credit is added per position.
C2_UmCreditoPorPosicao ==
    \A pos \in Range(posicoes) :
        Cardinality({k \in DOMAIN creditos :
                        PosReserva(creditos[k].reserva) = pos}) <= 1

\* -------------------------------------------------------------------- C3
\* the roster of the scenario: one Atacante starter, captain, feed score 8.0,
\* did not enter play, club match finished; one Atacante reserve with 4.0
CenarioC3 ==
    /\ Len(time.atletas) = 1
    /\ Len(time.reservas) = 1
    /\ PosAtleta(1) = "Atacante"
    /\ PosReserva(1) = "Atacante"
    /\ time.atletas[1].is_capitao
    /\ PontosNoFeed(time.atletas[1].id) = 160
    /\ ~EntrouNoFeed(time.atletas[1].id)
    /\ PontosNoFeed(time.reservas[1].id) = 80
    /\ time.atletas[1].clube \in ClubeNomes
    /\ StatusDe(1)

\* C3: in that scenario the pass ends with roster.pontos = 12.0 + 4.0 = 16.0.
C3_CenarioDaDezesseis ==
    (pc = "done" /\ CenarioC3) => time.pontos = 320

\* -------------------------------------------------------------------- C4
\* the inputs the guard is to reject
EntradaMalformada ==
    \/ parciais.chave_nao_int
    \/ \E k \in DOMAIN parciais.atletas : parciais.atletas[k].tipo # "Atleta"
    \/ ~time_ok

\* C4: with a non-integer key or a non-Atleta value in the feed, or a roster
\* that is no Time, the call raises CartolaFCError and the roster keeps every
\* field it had when the call began.

C4_InvalidoNaoMuta ==
    EntradaMalformada =>
        /\ pc \in {"idle", "raised"}
        /\ time = time_antes
        /\ (pc = "raised" => erro = "CartolaFCError")

C4_Witness ==
    /\ pc = "raised"
    /\ erro = "CartolaFCError"
    /\ time_ok
    /\ ~parciais.chave_nao_int
    /\ \E k \in DOMAIN parciais.atletas : parciais.atletas[k].tipo = "dict"

\* -------------------------------------------------------------------- C5
\* C5: the iteration of a starter that did not enter play and whose match
\* status is false adds no reserve points (pontos grows by the starter's own
\* contribution only) and records no position as substituted, captain or not.
C5_PartidaNaoEncerradaBloqueia ==
    [][ (/\ pc = "loop"
         /\ pc' = "loop"
         /\ i' = i + 1
         /\ ~EntrouNoFeed(time.atletas[i].id)
         /\ ~jogo_finalizou')
        => (/\ creditos' = creditos
            /\ reserva_usado' = reserva_usado
            /\ time'.pontos = time.pontos + Contribuicao(i)) ]_vars

C5_Witness ==
    /\ pc = "done"
    /\ \E k \in Processados, l \in Processados :
          /\ time.atletas[k].is_capitao
          /\ ~time.atletas[l].is_capitao
          /\ \A x \in {k, l} :
                /\ ~EntrouNoFeed(time.atletas[x].id)
                /\ time.atletas[x].clube \in ClubeNomes
                /\ ~StatusDe(x)
                /\ TemReservaElegivel(x)

\* -------------------------------------------------------------------- C6
\* C6: within a pass the positions-substituted list only grows, and the
\* iteration of a starter whose position is already in it adds no reserve
\* points: pontos grows by that starter's own contribution only.
C6_PosicaoConsumida ==
    [][ pc = "loop" =>
          /\ IsPrefix(reserva_usado, reserva_usado')
          /\ (/\ pc' = "loop"
              /\ i' = i + 1
              /\ PosAtleta(i) \in Range(reserva_usado))
             => (/\ creditos' = creditos
                 /\ time'.pontos = time.pontos + Contribuicao(i)) ]_vars

\* a later starter of a consumed position that would otherwise be substituted
\* (did not enter play, match finished, eligible reserve), captain and not
C6_Witness ==
    /\ pc = "done"
    /\ \E c \in Range(creditos) :
          /\ c.ramo = "limiar"
          /\ \E k \in Processados :
                /\ k > c.atleta
                /\ PosAtleta(k) = PosAtleta(c.atleta)
                /\ ~EntrouNoFeed(time.atletas[k].id)
                /\ time.atletas[k].is_capitao
                /\ time.atletas[k].clube \in ClubeNomes
                /\ StatusDe(k)
                /\ TemReservaElegivel(k)

\* -------------------------------------------------------------------- C7
\* C7: jogados counts exactly the processed starters that have a feed entry,
\* whatever their entered-play flag; a processed starter absent from the feed
\* has score 0 (the amount api.py:542 adds for it, captain included) and
\* entered-play false; 0 <= jogados <= number of starters.
C7_JogadosContaParciais ==
    pc \in {"loop", "done"} =>
        /\ time.jogados =
              Cardinality({k \in Processados :
                              time.atletas[k].id \in DOMAIN parciais.atletas})
        /\ \A k \in Processados :
              time.atletas[k].id \notin DOMAIN parciais.atletas =>
                  /\ time.atletas[k].pontos = 0
                  /\ time.atletas[k].entrou_em_campo = FALSE
        /\ time.jogados >= 0
        /\ time.jogados <= Len(time.atletas)

C7_Witness ==
    /\ pc = "done"
    /\ time.jogados = 1
    /\ \E k \in Processados, l \in Processados :
          /\ time.atletas[k].id \in DOMAIN parciais.atletas
          /\ ~EntrouNoFeed(time.atletas[k].id)
          /\ time.atletas[l].id \notin DOMAIN parciais.atletas
          /\ time.atletas[l].is_capitao

\* -------------------------------------------------------------------- C8
\* the credits the step appends to the history
CreditosDoPasso(antes, depois) ==
    SomaCreditos(depois, Len(antes) + 1)

\* C8: in its iteration a starter itself adds 1.5 x its feed score when it is
\* the captain and its feed score otherwise, entered play or not, substitution
\* credited or not: pontos grows by that amount plus the credits of the step.
C8_ContribuicaoDoCapitao ==
    [][ (pc = "loop" /\ pc' = "loop" /\ i' = i + 1) =>
          /\ IsPrefix(creditos, creditos')
          /\ time'.pontos - time.pontos - CreditosDoPasso(creditos, creditos')
                = Contribuicao(i)
          /\ time'.atletas[i].pontos = Contribuicao(i) ]_vars

C8_Witness ==
    /\ pc = "done"
    /\ Len(time.atletas) = 2
    /\ \E k \in Processados, l \in Processados :
          /\ time.atletas[k].is_capitao
          /\ ~EntrouNoFeed(time.atletas[k].id)
          /\ Contribuicao(k) = 240
          /\ \E c \in Range(creditos) : c.atleta = k
          /\ ~time.atletas[l].is_capitao
          /\ Contribuicao(l) = 160

\* -------------------------------------------------------------------- C9
\* C9: every further call on the same roster object with the same feed and
\* the same matches returns the pontos and jogados the call before returned.
C9_Idempotente ==
    (anterior # <<>> /\ retorno # <<>>) => retorno = anterior

C9_Witness ==
    /\ pc = "done"
    /\ anterior # <<>>
    /\ retorno[1].jogados > 0
    /\ Len(reserva_usado) > 0
    /\ \E k \in Processados :
          time.atletas[k].is_capitao /\ Contribuicao(k) = 240

\* ------------------------------------------------------------------- C10
\* the last partida of the list that references the clube, 0 when none does
UltimaPartidaDoClube(clube, ps) ==
    LET S == {k \in 1..Len(ps) :
                 clube = ps[k].clube_casa \/ clube = ps[k].clube_visitante}
    IN IF S = {} THEN 0 ELSE CHOOSE k \in S : \A l \in S : l <= k

\* the status the claim gives a clube: true exactly when a partida references
\* it and is over or not valid (the one that decides when several do: C11)
StatusEsperado(clube, ps) ==
    /\ clube \notin {ClubeVazio, ClubeNone}
    /\ UltimaPartidaDoClube(clube, ps) # 0
    /\ LET p == ps[UltimaPartidaDoClube(clube, ps)]
       IN p.fim_de_jogo = "veja como foi"
            \/ p.status_transmissao_tr = "ENCERRADA"
            \/ ~p.valida

\* C10: the match status of a starter is true exactly when a partida
\* references its clube and is over or not valid; for an empty or unresolved
\* clube, or a clube no partida references, it is false and the pass raises
\* no error.
C10_StatusDaPartida ==
    /\ erro # "AttributeError"
    /\ (pc \in {"loop", "done"} /\ i > 1) =>
          jogo_finalizou = StatusEsperado(time.atletas[i - 1].clube, partidas)

\* ------------------------------------------------------------------- C11
\* the partidas of the list that reference the clube
PartidasDoClube(clube, ps) ==
    {k \in 1..Len(ps) : clube = ps[k].clube_casa \/ clube = ps[k].clube_visitante}

\* C11: when several partidas reference the starter's clube, the match status
\* is the one of the last of them in list order.
C11_UltimaPartidaDecide ==
    (/\ pc \in {"loop", "done"}
     /\ i > 1
     /\ time.atletas[i - 1].clube \in ClubeNomes
     /\ Cardinality(PartidasDoClube(time.atletas[i - 1].clube, partidas)) >= 2)
    => LET p == partidas[UltimaPartidaDoClube(time.atletas[i - 1].clube, partidas)]
       IN jogo_finalizou = (\/ p.fim_de_jogo = "veja como foi"
                            \/ p.status_transmissao_tr = "ENCERRADA"
                            \/ ~p.valida)

\* a finished partida of the clube followed by an unfinished one: status false
C11_Witness ==
    /\ pc = "done"
    /\ Len(time.atletas) = 1
    /\ time.atletas[1].clube = "A"
    /\ Len(partidas) = 2
    /\ partidas[1].status_transmissao_tr = "ENCERRADA"
    /\ partidas[2].status_transmissao_tr = "EM_ANDAMENTO"
    /\ ~jogo_finalizou
    /\ creditos = <<>>

\* ------------------------------------------------------------------- C12
\* C12: the iteration of a starter whose feed flag says it entered play adds
\* no reserve points (pontos grows by the starter's own contribution only)
\* and leaves the positions-substituted list as it was.
C12_QuemEntrouNaoSubstitui ==
    [][ (/\ pc = "loop"
         /\ pc' = "loop"
         /\ i' = i + 1
         /\ EntrouNoFeed(time.atletas[i].id))
        => (/\ creditos' = creditos
            /\ reserva_usado' = reserva_usado
            /\ time'.pontos = time.pontos + Contribuicao(i)) ]_vars

C12_Witness ==
    /\ pc = "done"
    /\ \E k \in Processados :
          /\ EntrouNoFeed(time.atletas[k].id)
          /\ time.atletas[k].is_capitao
          /\ time.atletas[k].clube \in ClubeNomes
          /\ StatusDe(k)
          /\ TemReservaElegivel(k)
          /\ PosAtleta(k) \notin Range(reserva_usado)

\* ------------------------------------------------------------------- C13
\* C13: after a completed pass on a roster with at least one starter every
\* reserve's score is its feed score, 0 when the feed has no entry for it.
C13_ReservasAtualizadas ==
    (pc = "done" /\ Len(time.atletas) >= 1) =>
        \A j \in 1..Len(time.reservas) :
            time.reservas[j].pontos = PontosNoFeed(time.reservas[j].id)

\* ------------------------------------------------------------------- C14
\* the credits a step appends
NovosCreditos(antes, depois) ==
    {depois[k] : k \in (Len(antes) + 1)..Len(depois)}

RECURSIVE SomaNoFeed(_, _)
SomaNoFeed(cs, k) ==
    IF k > Len(cs) THEN 0
    ELSE PontosNoFeed(time.reservas[cs[k].reserva].id) + SomaNoFeed(cs, k + 1)

\* C14: every credit of a step is the credited reserve's own feed score,
\* unmultiplied, and the step adds to pontos those feed scores plus the
\* starter's own contribution, the only amount the 1.5 multiplier touches.
C14_CreditoSemMultiplicador ==
    [][ (pc = "loop" /\ pc' = "loop" /\ i' = i + 1) =>
          /\ \A c \in NovosCreditos(creditos, creditos') :
                c.pontos = PontosNoFeed(time.reservas[c.reserva].id)
          /\ time'.pontos - time.pontos
                = Contribuicao(i) + SomaNoFeed(creditos', Len(creditos) + 1) ]_vars

C14_Witness ==
    /\ pc = "done"
    /\ \E c \in Range(creditos) :
          /\ time.atletas[c.atleta].is_capitao
          /\ Contribuicao(c.atleta) = 240
          /\ c.pontos = Limiar

\* ------------------------------------------------------------------- C15
\* C15: with a well-formed feed the pass never raises; a reserve absent from
\* the feed is credited 0 at most; with an empty feed the pass ends with
\* pontos = 0 and jogados = 0.
C15_SemDadosNaoEhErro ==
    /\ ~EntradaMalformada => pc # "raised"
    /\ \A c \in Range(creditos) :
          time.reservas[c.reserva].id \notin DOMAIN parciais.atletas
              => c.pontos = 0
    /\ (pc = "done" /\ DOMAIN parciais.atletas = {}) =>
          (time.pontos = 0 /\ time.jogados = 0)

\* ------------------------------------------------------------------- C20
\* the first reserve in stored order of the position of starter k whose feed
\* score reaches 0.1; 0 when there is none
PrimeiroElegivel(k) ==
    LET S == {j \in 1..Len(time.reservas) :
                 /\ PosReserva(j) = PosAtleta(k)
                 /\ PontosNoFeed(time.reservas[j].id) >= Limiar}
    IN IF S = {} THEN 0 ELSE CHOOSE j \in S : \A l \in S : j <= l

\* C20: the iteration of a non-captain starter that did not enter play and
\* whose match is finished credits exactly the first same-position reserve
\* with score >= 0.1, once, marks the position and leaves the later reserves
\* untouched; with no such reserve (or a position already substituted) it
\* credits nothing and marks nothing.
C20_PrimeiroReservaElegivel ==
    [][ (/\ pc = "loop"
         /\ pc' = "loop"
         /\ i' = i + 1
         /\ ~time.atletas[i].is_capitao
         /\ ~EntrouNoFeed(time.atletas[i].id)
         /\ jogo_finalizou')
        => IF PrimeiroElegivel(i) = 0 \/ PosAtleta(i) \in Range(reserva_usado)
           THEN creditos' = creditos /\ reserva_usado' = reserva_usado
           ELSE /\ creditos' =
                     Append(creditos,
                            [atleta |-> i, reserva |-> PrimeiroElegivel(i),
                             pontos |-> PontosNoFeed(
                                 time.reservas[PrimeiroElegivel(i)].id),
                             ramo |-> "limiar"])
                /\ reserva_usado' = Append(reserva_usado, PosAtleta(i))
                /\ \A j \in (PrimeiroElegivel(i) + 1)..Len(time.reservas) :
                      time'.reservas[j] = time.reservas[j] ]_vars

\* the credited reserve is the second one: the first, of the same position,
\* is below 0.1
C20_Witness ==
    /\ pc = "done"
    /\ Len(time.reservas) = 2
    /\ PosReserva(1) = PosReserva(2)
    /\ PontosNoFeed(time.reservas[1].id) < Limiar
    /\ \E c \in Range(creditos) :
          /\ c.reserva = 2
          /\ c.ramo = "limiar"
          /\ ~time.atletas[c.atleta].is_capitao

\* ---------------------------------------------------------------- C16
\* the state of a call right after api.py:469-473
EstadoInicial(t) ==
    [time |-> Reset(t), reserva_usado |-> <<>>, foundRes |-> FALSE,
     creditos |-> <<>>]

\* the plain sequential pass over starters k..ate, each looked up directly
\* with parciais.get (the loop of api.py:475 without the pool)
RECURSIVE Sequencial(_, _, _, _, _)
Sequencial(st, feed, ps, k, ate) ==
    IF k > ate THEN st
    ELSE LET s == Iteracao(st, feed, ps, k, Get(feed, st.time.atletas[k].id))
         IN Sequencial([time |-> s.time, reserva_usado |-> s.reserva_usado,
                        foundRes |-> s.foundRes, creditos |-> s.creditos],
                       feed, ps, k + 1, ate)

\* the Future is pending
Pendente == futuro # <<>> /\ futuro[1].estado = "pendente"

\* C16: fetching each starter's feed entry through the one-worker pool gives
\* what a plain sequential loop with direct lookups gives: during and after a
\* pass the call's state is the sequential pass over the starters before i,
\* starters are taken strictly in roster order, and the worker's step only
\* reads the feed (it completes the Future with the direct lookup of the
\* current starter and changes nothing of the roster or of the call)
C16_PoolEquivaleSequencial ==
    /\ [](pc \in {"loop", "done"} =>
            Estado = Sequencial(EstadoInicial(time_antes), parciais, partidas,
                                1, i - 1))
    /\ [][/\ (i' # i => (i' = i + 1 \/ (i' = 1 /\ pc \in {"idle", "done"})))
          /\ (Pendente /\ futuro' # futuro =>
                 /\ chamada' = chamada
                 /\ futuro'[1].estado = "concluido"
                 /\ futuro'[1].resultado = Get(parciais, time.atletas[i].id))]_vars

\* a two-starter pass through the pool that ended with a reserve credited
C16_Witness ==
    /\ pc = "done"
    /\ futuro = <<>>
    /\ Len(time.atletas) = 2
    /\ \A k \in 1..2 : time.atletas[k].id \in DOMAIN parciais.atletas
    /\ creditos # <<>>
    /\ time.pontos > 0

\* ---------------------------------------------------------------- C17
\* C17: the list of positions already substituted belongs to one call: with
\* two calls of different rosters running one after the other or interleaved,
\* each call's roster and credits are, during and after its pass, what the
\* call gives when it runs alone (no substitution of one roster blocks or
\* alters a substitution of the other)
C17_UsadoPorChamada ==
    /\ (pc \in {"loop", "done"} =>
          LET s == Sequencial(EstadoInicial(time_antes), parciais, partidas,
                              1, i - 1)
          IN time = s.time /\ creditos = s.creditos)
    /\ (b.pc \in {"loop", "done"} =>
          LET s == Sequencial(EstadoInicial(b.time_antes), parciais, partidas,
                              1, b.i - 1)
          IN b.time = s.time /\ b.creditos = s.creditos)

\* both calls done, each having substituted the same position
C17_Witness ==
    /\ pc = "done"
    /\ b.pc = "done"
    /\ creditos # <<>>
    /\ b.creditos # <<>>
    /\ \E c \in Range(creditos), d \in Range(b.creditos) :
          posicoes[time.reservas[c.reserva].posicao_id]
            = posicoes[b.time.reservas[d.reserva].posicao_id]

\* ---------------------------------------------------------------- C18
\* the retry count the claim names: the configured value when it is a
\* positive integer, otherwise 1
NEsperado ==
    IF api.attempts_arg.int /\ api.attempts_arg.val >= 1
    THEN api.attempts_arg.val ELSE 1

\* the request fetched k times and every fetch signalled overload
SoOverload(k) ==
    Len(req.sinais) = k /\ \A j \in 1..k : req.sinais[j] = "overload"

\* C18: on a cache miss _request with retry count N (1 when the configured
\* value is no positive integer) fetches at most N times; it returns the
\* first response that is no overload, right after that fetch; it raises
\* CartolaFCOverloadError exactly when N fetches all signalled overload; an
\* error that is no overload leaves it at once, with no retry; and a request
\* in its retry loop always ends
C18_RetryLimitado ==
    /\ [](/\ req.fetches = Len(req.sinais)
          /\ req.fetches <= NEsperado
          /\ (req.pc = "loop" =>
                 SoOverload(req.fetches) /\ req.fetches < NEsperado)
          /\ (req.pc = "returned" /\ ~req.cache =>
                 /\ req.fetches >= 1
                 /\ req.sinais[req.fetches] = "ok"
                 /\ \A j \in 1..(req.fetches - 1) : req.sinais[j] = "overload"
                 /\ req.retorno # <<>>)
          /\ (req.erro = "CartolaFCOverloadError" <=> SoOverload(NEsperado))
          /\ (SoOverload(NEsperado) => req.pc = "raised")
          /\ ((\E j \in 1..Len(req.sinais) : req.sinais[j] = "erro") =>
                 /\ req.pc = "raised"
                 /\ req.erro = "CartolaFCError"
                 /\ req.sinais[req.fetches] = "erro"
                 /\ \A j \in 1..(req.fetches - 1) : req.sinais[j] = "overload"))
    /\ (req.pc = "loop" ~> req.pc \in {"returned", "raised"})

\* a request of an Api with a retry count of at least 2 that ended in the
\* overload error after that many fetches
C18_Witness ==
    /\ api.attempts >= 2
    /\ req.pc = "raised"
    /\ req.erro = "CartolaFCOverloadError"
    /\ req.fetches = api.attempts

\* ---------------------------------------------------------------- C19
\* the time-to-live the claim names: the configured timeout when it is a
\* positive integer, otherwise the default of 10 seconds
TtlEsperado ==
    IF api.timeout_arg.int /\ api.timeout_arg.val >= 1
    THEN api.timeout_arg.val ELSE 10

\* the Redis server holds, at this second, non-empty bytes for url u
TemEntrada(u) ==
    /\ redis[u] # <<>>
    /\ redis[u][1].valor.bytes # ""
    /\ (redis[u][1].expira = <<>> \/ agora < redis[u][1].expira[1])

\* the step begins a _request call
ComecaPedido == req.pc \in {"idle", "returned", "raised"} /\ req' # req

\* the step is a fetch of the call that succeeds
FetchBemSucedido == req.pc = "loop" /\ req'.pc = "returned"

\* C19: with a cache, a request for a URL that has a non-empty entry returns
\* that entry's data and fetches nothing; a successful fetch stores the
\* parsed response under the URL, serialised, to expire after the configured
\* time-to-live; so a request served from the cache returns the data that
\* was last stored for its URL. Without a cache every request goes to the
\* fetch, a returned request has fetched, and nothing is ever stored
C19_CachePorUrl ==
    /\ [](/\ (req.cache => /\ api.redis
                           /\ req.pc = "returned"
                           /\ req.fetches = 0
                           /\ req.retorno = origem[req.url]
                           /\ req.retorno # <<>>)
          /\ (~api.redis /\ req.pc = "returned" => req.fetches >= 1))
    /\ [][/\ (ComecaPedido /\ api.redis /\ TemEntrada(req'.url) =>
                 /\ req'.cache
                 /\ req'.pc = "returned"
                 /\ req'.fetches = 0
                 /\ Dumps(req'.retorno[1]) = redis[req'.url][1].valor.bytes
                 /\ redis' = redis)
          /\ (FetchBemSucedido /\ api.redis =>
                 redis' = [redis EXCEPT ![req.url] =
                              <<Entrada(Encode(Dumps(req'.retorno[1])),
                                        <<agora + TtlEsperado>>)>>])
          /\ (ComecaPedido /\ ~api.redis => req'.pc = "loop")
          /\ (~api.redis => redis' = redis /\ origem' = origem)]_vars

\* a request served from the cache at a later second than the fetch that
\* stored the entry, while a request for the other URL would miss
C19_Witness ==
    /\ req.cache
    /\ req.pc = "returned"
    /\ agora >= 1
    /\ req.retorno = origem[req.url]
    /\ \E u \in Urls : u # req.url /\ ~TemEntrada(u)

\* ---------------------------------------------------------------- C21
\* the roster's reserve list is None or empty
SemReservas == time.reservas_none \/ Len(time.reservas) = 0

\* C21: with a reserve list that is None or empty a pass on a well-formed
\* input substitutes nothing and ends without an error: no credit is made,
\* the list of substituted positions stays empty, the call does not raise,
\* and after it roster.pontos is the sum of the starters' feed scores, the
\* captain's x1.5
C21_SemReservasSemSubstituicao ==
    (SemReservas /\ ~EntradaMalformada) =>
        /\ creditos = <<>>
        /\ reserva_usado = <<>>
        /\ pc # "raised"
        /\ (pc = "done" => time.pontos = SomaContribuicoes(Len(time.atletas)))

\* ---------------------------------------------------------------- C25
\* the starters on whose behalf reserve j was credited in the current pass
CreditadosPor(j) ==
    {creditos[x].atleta : x \in {y \in 1..Len(creditos) : creditos[y].reserva = j}}

\* C25: within one pass no reserve is credited on behalf of more than one
\* starter: the starters whose iteration added the score of a given reserve
\* to roster.pontos are at most one
C25_ReservaDeUmSoTitular ==
    \A j \in 1..Len(time.reservas) : Cardinality(CreditadosPor(j)) <= 1

\* a finished pass over two starters of one position, the captain among them,
\* neither of whom entered play, both with a finished match, with two
\* reserves of that position, one of which was credited
C25_Witness ==
    /\ pc = "done"
    /\ Len(time.atletas) = 2
    /\ Len(time.reservas) = 2
    /\ PosAtleta(1) = PosAtleta(2)
    /\ \A j \in 1..2 : PosReserva(j) = PosAtleta(1)
    /\ \A k \in 1..2 : ~EntrouNoFeed(time.atletas[k].id) /\ StatusDe(k)
    /\ \E k \in 1..2 : time.atletas[k].is_capitao
    /\ creditos # <<>>

\* ---------------------------------------------------------------- C24
\* reserves of the position of starter k whose feed score reaches 0.1
Elegiveis(k) ==
    {j \in 1..Len(time.reservas) :
        PosReserva(j) = PosAtleta(k) /\ PontosNoFeed(time.reservas[j].id) >= Limiar}

\* the last reserve the scan of starter k reaches: the first eligible one,
\* the end of the list when there is none
Parada(k) ==
    IF Elegiveis(k) = {} THEN Len(time.reservas)
    ELSE CHOOSE j \in Elegiveis(k) : \A x \in Elegiveis(k) : j <= x

\* the reserves of the position of starter k that its scan reaches
Varridos(k) == {j \in 1..Parada(k) : PosReserva(j) = PosAtleta(k)}

\* the step is the iteration of a captain who did not enter play, whose match
\* is finished, whose position is not yet substituted, over a reserve list
CapitaoSubstituivel ==
    /\ pc = "loop"
    /\ pc' = "loop"
    /\ i' = i + 1
    /\ time.atletas[i].is_capitao
    /\ ~EntrouNoFeed(time.atletas[i].id)
    /\ jogo_finalizou'
    /\ ~time.reservas_none
    /\ PosAtleta(i) \notin Range(reserva_usado)

\* C24: in the iteration of a captain who did not enter play and whose match
\* is finished, the captain branch adds to roster.pontos the raw feed score
\* of every same-position reserve the scan reaches, whatever the score (zero
\* and negative scores too); only a reserve whose score reaches 0.1 marks the
\* position as substituted, so a reserve below 0.1 is credited without
\* marking it
C24_RamoCapitaoSemLimiar ==
    [][ CapitaoSubstituivel =>
          LET novos == NovosCreditos(creditos, creditos')
              cap   == {c \in novos : c.ramo = "capitao"}
          IN /\ {c.reserva : c \in cap} = Varridos(i)
             /\ \A c \in cap : c.atleta = i
                               /\ c.pontos = PontosNoFeed(time.reservas[c.reserva].id)
             /\ Cardinality(cap) = Cardinality(Varridos(i))
             /\ time'.pontos - time.pontos
                   = Contribuicao(i) + SomaNoFeed(creditos', Len(creditos) + 1)
             /\ reserva_usado' =
                   IF Elegiveis(i) = {} THEN reserva_usado
                   ELSE Append(reserva_usado, PosAtleta(i)) ]_vars

\* a finished pass in which the captain branch credited a negative score:
\* the position was not marked and roster.pontos is below the sum of the
\* starters' own scores
C24_Witness ==
    /\ pc = "done"
    /\ \E x \in 1..Len(creditos) :
          /\ creditos[x].ramo = "capitao"
          /\ creditos[x].pontos < 0
          /\ PosReserva(creditos[x].reserva) \notin Range(reserva_usado)
    /\ time.pontos < SomaContribuicoes(Len(time.atletas))

\* ---------------------------------------------------------------- C23
\* both calls have ended, the first one for the first time
AmbasTerminaram ==
    /\ pc \in {"done", "raised"}
    /\ anterior = <<>>
    /\ c2.pc \in {"done", "raised"}

\* C23: _calculate_parcial and _calculate_parcial_2, handed the same feed,
\* the same matches and equal rosters, end the same way: both raise the
\* invalid-input error, or neither does, and they leave equal rosters (pontos,
\* jogados, every starter's and every reserve's fields)
C23_DuasVersoesEquivalem ==
    AmbasTerminaram =>
        /\ (erro = "CartolaFCError") = (c2.erro = "CartolaFCError")
        /\ erro = c2.erro
        /\ pc = c2.pc
        /\ time = c2.time

\* both passes done on a roster with a captain who did not enter play and
\* several reserves, one of them credited
C23_Witness ==
    /\ AmbasTerminaram
    /\ pc = "done"
    /\ Len(time.reservas) >= 2
    /\ creditos # <<>>
    /\ time.pontos > 0
    /\ \E k \in 1..Len(time.atletas) :
          time.atletas[k].is_capitao /\ ~time.atletas[k].entrou_em_campo

\* ---------------------------- parciais, time_parcial and time_parcial_2
\* the status ids of models.py:29-37
StatusIds == {1, 2, 3, 4, 6}

\* the values of the rodada argument, 0 being the default
Rodadas == 0..MaxRodada

\* how a call ended and what it fetched, in order: "mercado" for a
\* self.mercado(), "pontuados" for /atletas/pontuados/, "time" for
\* self.time(), "arquivo" for the read of static/dict_parciais.json, and
\* "calcula" for the call of the aggregator
Fim(e, msg, buscas) == [erro |-> e, msg |-> msg, buscas |-> buscas]

ParciaisSoFechado(m, rodada) ==
    IF m.status = MERCADO_FECHADO
    THEN Fim("", "", <<"mercado", "pontuados">>)
    ELSE Fim("CartolaFCError", "mercado", <<"mercado">>)
\* Api.parciais (api.py:254-290): the closed market fetches; so does the
\* open market when rodada is not the current round; anything else raises
ParciaisDe(m, rodada) ==
    IF m.status = MERCADO_FECHADO
    THEN Fim("", "", <<"mercado", "pontuados">>)
    ELSE IF m.status = MERCADO_ABERTO
    THEN IF rodada # m.rodada_atual
         THEN Fim("", "", <<"mercado", "mercado", "mercado", "pontuados">>)
         ELSE Fim("CartolaFCError", "mercado", <<"mercado", "mercado", "mercado">>)
    ELSE Fim("CartolaFCError", "mercado", <<"mercado", "mercado">>)

\* the loop of api.py:475-542 from starter k on, to its end or to the
\* AttributeError of api.py:499-500
RECURSIVE CalculaDesde(_, _, _, _)
CalculaDesde(st, feed, ps, k) ==
    IF k > Len(st.time.atletas) THEN [erro |-> "", time |-> st.time]
    ELSE LET r  == teste(feed, st.time.atletas[k].id)
             t1 == AposResultado(st.time, k, r)
         IN IF LevantaAttributeError(t1.atletas[k].clube, ps)
            THEN [erro |-> "AttributeError", time |-> t1]
            ELSE LET n == Iteracao(st, feed, ps, k, r)
                 IN CalculaDesde([time |-> n.time,
                                  reserva_usado |-> n.reserva_usado,
                                  foundRes |-> n.foundRes,
                                  creditos |-> n.creditos], feed, ps, k + 1)

\* Api._calculate_parcial (api.py:462-544) as a whole: the error it ends
\* with, "" for none, and the roster it leaves
CalculaParcial(t, t_ok, feed, ps) ==
    IF ~EntradaValida(t_ok, feed) THEN [erro |-> "CartolaFCError", time |-> t]
    ELSE CalculaDesde(EstadoInicial(t), feed, ps, 1)

\* the loop of api.py:560-627 from starter k on
RECURSIVE Calcula2Desde(_, _, _, _)
Calcula2Desde(st, feed, ps, k) ==
    IF k > Len(st.time.atletas) THEN [erro |-> "", time |-> st.time]
    ELSE LET r == teste_2(feed, st.time.atletas[k].id)
         IN IF Raises2(st.time.atletas[k].clube, ps)
            THEN [erro |-> "AttributeError", time |-> Parcial2(st.time, k, r)]
            ELSE Calcula2Desde(Iteracao2(st, feed, ps, k, r), feed, ps, k + 1)

\* Api._calculate_parcial_2 (api.py:546-629) as a whole
CalculaParcial2(t, t_ok, feed, ps) ==
    IF ~EntradaValida2(t_ok, feed) THEN [erro |-> "CartolaFCError", time |-> t]
    ELSE Calcula2Desde([time |-> [t EXCEPT !.pontos = 0, !.jogados = 0],
                        reserva_usado |-> <<>>, foundRes |-> FALSE],
                       feed, ps, 1)

\* the parciais argument: None, a dict (the feed), or something else
Args == {"None", "dict", "outro"}

\* the end of a call whose aggregator ended as c, after the fetches bs
AposCalculo(c, bs) ==
    [erro |-> c.erro, msg |-> IF c.erro = "CartolaFCError" THEN "invalido" ELSE "",
     buscas |-> Append(bs, "calcula"), time |-> <<c.time>>]

TimeParcialSempreVerifica(arg, m, t, t_ok, feed, ps) ==
    IF m.status # MERCADO_FECHADO
    THEN [erro |-> "CartolaFCError", msg |-> "mercado", buscas |-> <<"mercado">>,
          time |-> <<>>]
    ELSE AposCalculo(CalculaParcial(t, t_ok, feed, ps), <<"mercado", "time">>)
\* Api.time_parcial (api.py:392-412): arg is the parciais argument, feed the
\* dict it holds or the feed of the provider, t the roster self.time() gives
TimeParcialDe(arg, m, t, t_ok, feed, ps) ==
    IF arg = "None" /\ m.status # MERCADO_FECHADO
    THEN [erro |-> "CartolaFCError", msg |-> "mercado", buscas |-> <<"mercado">>,
          time |-> <<>>]
    ELSE LET antes == IF arg = "None" THEN <<"mercado">> ELSE <<>>
             p == IF arg = "dict" THEN Fim("", "", <<>>) ELSE ParciaisDe(m, 0)
         IN IF p.erro # ""
            THEN [erro |-> p.erro, msg |-> p.msg, buscas |-> antes \o p.buscas,
                  time |-> <<>>]
            ELSE AposCalculo(CalculaParcial(t, t_ok, feed, ps),
                             antes \o p.buscas \o <<"time">>)

\* the feed api.py:419-430 builds from the file: the file's string keys, the
\* raw records as values
FeedArquivo(arq) ==
    [atletas |-> [k \in arq |-> [tipo |-> "dict"]], chave_nao_int |-> arq # {}]

TimeParcial2UsaArgumento(arg, m, arq, t, t_ok, feed, ps) ==
    IF arg = "None" /\ m.status # MERCADO_FECHADO
    THEN [erro |-> "CartolaFCError", msg |-> "mercado", buscas |-> <<"mercado">>,
          time |-> <<>>, feed |-> <<>>]
    ELSE LET antes == IF arg = "None" THEN <<"mercado">> ELSE <<>>
             f == IF arg = "dict" THEN feed ELSE FeedArquivo(arq)
             c == AposCalculo(CalculaParcial2(t, t_ok, f, ps),
                              antes \o <<"arquivo", "time">>)
         IN [erro |-> c.erro, msg |-> c.msg, buscas |-> c.buscas,
             time |-> c.time, feed |-> <<f>>]
\* Api.time_parcial_2 (api.py:414-441): arg is the parciais_2 argument, arq
\* the athlete keys of the file
TimeParcial2De(arg, m, arq, t, t_ok, feed, ps) ==
    IF arg = "None" /\ m.status # MERCADO_FECHADO
    THEN [erro |-> "CartolaFCError", msg |-> "mercado", buscas |-> <<"mercado">>,
          time |-> <<>>, feed |-> <<>>]
    ELSE LET antes == IF arg = "None" THEN <<"mercado">> ELSE <<>>
             f == FeedArquivo(arq)
             c == AposCalculo(CalculaParcial2(t, t_ok, f, ps),
                              antes \o <<"arquivo", "time">>)
         IN [erro |-> c.erro, msg |-> c.msg, buscas |-> c.buscas,
             time |-> c.time, feed |-> <<f>>]

\* the record of a call: the method, its argument, the market and the file
\* it met, and how it ended
Chamou(op, arg, rodada, fim) ==
    [pc |-> IF fim.erro = "" THEN "returned" ELSE "raised",
     op |-> op, arg |-> arg, rodada |-> rodada,
     mercado |-> mercado, arquivo |-> arquivo, fim |-> fim]

\* what the calls of the Api's methods leave alone
fora3 == <<chamada, futuro, b, pedido, c2, mercado, arquivo>>

\* a call of Api.parciais
ChamaParciais ==
    /\ \E rodada \in Rodadas :
         h' = Chamou("parciais", "None", rodada, ParciaisDe(mercado, rodada))
    /\ UNCHANGED fora3

\* the feed Api.parciais builds (api.py:271-274): int keys, Atleta values
Provedor(feed) ==
    [atletas |-> [k \in DOMAIN feed.atletas |->
                     [feed.atletas[k] EXCEPT !.tipo = "Atleta"]],
     chave_nao_int |-> FALSE]

\* the feed a call works on: the dict it was handed, else the provider's
FeedDe(arg) == IF arg = "dict" THEN parciais ELSE Provedor(parciais)

\* a call of Api.time_parcial; the roster object the call scores is a new
\* one, built by self.time()
ChamaTimeParcial ==
    /\ \E arg \in Args :
         h' = Chamou("time_parcial", arg, 0,
                     TimeParcialDe(arg, mercado, time, TRUE, FeedDe(arg), partidas))
    /\ UNCHANGED fora3

\* a call of Api.time_parcial_2
ChamaTimeParcial2 ==
    /\ \E arg \in Args :
         h' = Chamou("time_parcial_2", arg, 0,
                     TimeParcial2De(arg, mercado, arquivo, time, TRUE,
                                    FeedDe(arg), partidas))
    /\ UNCHANGED fora3

\* the provider moves the market to another status or round
MudaMercado ==
    /\ \E st \in StatusIds, r \in 1..MaxRodada :
         /\ Mercado(st, r) # mercado
         /\ mercado' = Mercado(st, r)
    /\ UNCHANGED <<chamada, futuro, b, pedido, c2, arquivo, h>>

\* the file lists no athlete, one or two
Arquivos == {{}, {"1"}, {"1", "101"}}

\* the captain, an Atacante of club A or of no known club, who did not enter
\* play, and one Atacante reserve worth 4.0; the dict a caller hands over
\* holds Atleta values or raw records; the round's match is over
InitTimes ==
    \E clube \in {"A", ClubeNone}, tipo \in {"Atleta", "dict"} :
        /\ time = Time(<<Atleta(1, 5, TRUE, clube)>>, <<Reserva(1, 5)>>, FALSE)
        /\ time_ok = TRUE
        /\ parciais = Feed([k \in {AtletaId(1)} |->
                               [Parcial(160, FALSE) EXCEPT !.tipo = tipo]],
                           [k \in {ReservaId(1)} |-> Parcial(80, TRUE)], FALSE)
        /\ partidas = <<Partida("A", "B", "", "ENCERRADA", TRUE)>>

\* every market, every file
InitApi ==
    /\ InitTimes
    /\ InitChamada
    /\ b = SemChamada
    /\ InitSemPedido
    /\ c2 = SemChamada
    /\ \E st \in StatusIds, r \in 1..MaxRodada : mercado = Mercado(st, r)
    /\ arquivo \in Arquivos
    /\ h = SemChamada

NextApi ==
    \/ ChamaParciais
    \/ ChamaTimeParcial
    \/ ChamaTimeParcial2
    \/ MudaMercado

SpecApi == InitApi /\ [][NextApi]_vars

\* ---------------------------------------------------------------- C22
\* the last call was of method op
Chamado(op) == h.pc # "nenhuma" /\ h.op = op

\* the call fetched the endpoint (or ran the step) passo
Buscou(passo) == \E x \in 1..Len(h.fim.buscas) : h.fim.buscas[x] = passo

\* the call raised the CartolaFCError of the market that is not closed
ErroDeMercado ==
    h.pc = "raised" /\ h.fim.erro = "CartolaFCError" /\ h.fim.msg = "mercado"

PodeBuscar ==
    \/ h.mercado.status = MERCADO_FECHADO
    \/ h.mercado.status = MERCADO_ABERTO /\ h.rodada # h.mercado.rodada_atual

ErroDeEntrada ==
    h.pc = "raised" /\ h.fim.erro = "CartolaFCError" /\ h.fim.msg = "invalido"

\* C26 as stated: whenever the file lists an athlete time_parcial_2 ends
\* with the invalid-input error of _calculate_parcial_2; it returns only
\* when the file lists none
C26_SempreEntradaInvalida ==
    Chamado("time_parcial_2") =>
        /\ (h.arquivo # {} => ErroDeEntrada)
        /\ (h.pc = "returned" => h.arquivo = {})

\* the call stops at its own market check: no argument, market not closed
ParaNoMercado == h.arg = "None" /\ h.mercado.status # MERCADO_FECHADO

\* C26 amended: with no parciais_2 argument and a market that is not closed
\* time_parcial_2 raises the market's CartolaFCError before it reads the
\* file; otherwise it works on the feed rebuilt from the file, whatever the
\* argument, and whenever the file lists an athlete it ends with the
\* invalid-input error and the roster as it was fetched; it returns only
\* when the file lists no athlete
C26_InvalidaDepoisDoMercado ==
    Chamado("time_parcial_2") =>
        /\ (ParaNoMercado => ErroDeMercado /\ ~Buscou("arquivo") /\ ~Buscou("time"))
        /\ (~ParaNoMercado =>
              /\ Buscou("arquivo")
              /\ h.fim.feed = <<FeedArquivo(h.arquivo)>>
              /\ (h.arquivo # {} => ErroDeEntrada /\ h.fim.time = <<time>>))
        /\ (h.pc = "returned" => h.arquivo = {})

\* time_parcial_2 handed a dict of Atleta values, with a file that lists
\* athletes: the invalid-input error
C26_Witness ==
    /\ Chamado("time_parcial_2")
    /\ h.arg = "dict"
    /\ \A k \in DOMAIN parciais.atletas : parciais.atletas[k].tipo = "Atleta"
    /\ h.arquivo # {}
    /\ ErroDeEntrada

\* ---------------------------------------------------------------- C27
\* C27: with no feed and a market that is not closed time_parcial raises
\* CartolaFCError before it fetches a roster or a feed; handed a dict it
\* checks no market status, fetches the roster and runs the aggregator on
\* the dict, whatever the market: the call ends as the aggregator ends
C27_SemFeedExigeFechado ==
    Chamado("time_parcial") =>
        /\ (h.arg = "None" /\ h.mercado.status # MERCADO_FECHADO =>
              /\ ErroDeMercado
              /\ ~Buscou("time") /\ ~Buscou("pontuados") /\ ~Buscou("calcula"))
        /\ (h.arg = "dict" =>
              /\ h.fim.buscas = <<"time", "calcula">>
              /\ h.fim.erro = CalculaParcial(time, TRUE, parciais, partidas).erro
              /\ h.fim.time = <<CalculaParcial(time, TRUE, parciais, partidas).time>>)

\* time_parcial handed a dict while the market is open: a scored roster
C27_Witness ==
    /\ Chamado("time_parcial")
    /\ h.arg = "dict"
    /\ h.mercado.status = MERCADO_ABERTO
    /\ h.pc = "returned"
    /\ h.fim.time[1].pontos > 0
====
